---------------------------- MODULE Spec2Model ----------------------------
(***************************************************************************)
(* Model of the Conan recipe of network-monitor (conanfile.py).            *)
(*                                                                         *)
(* The recipe is a class ConanPackage(ConanFile) with two methods,         *)
(* generate() and layout().  generate() is modelled statement by           *)
(* statement (the position is pc), so that the order of its effects is     *)
(* part of the state; layout() is a single call.  The settings of the      *)
(* instance are its inputs and are drawn in Init.                          *)
(***************************************************************************)
EXTENDS Naturals, Sequences, FiniteSets

(* ---- class attributes (conanfile.py:6-15) ------------------------------ *)

name == "network-monitor"

version == "0.1.0"

\* settings = "os", "compiler", "build_type", "arch": the names of the settings
\* the recipe declares; an instance carries one value for each.
settings_names == {"os", "compiler", "build_type", "arch"}

requires == <<"boost/1.80.0", "libcurl/7.85.0", "nlohmann_json/3.11.2",
              "openssl/3.6.0", "zlib/1.2.13">>

default_options == [o \in {"boost/*:shared"} |-> FALSE]

(* ---- values the settings are drawn from -------------------------------- *)

BuildTypes == {"Debug", "Release", "RelWithDebInfo", "MinSizeRel"}

OsValues == {"Linux", "Windows", "Macos"}

CompilerValues == {"gcc", "clang"}

ArchValues == {"x86_64", "armv8"}

SettingsValues ==
    [os : OsValues, compiler : CompilerValues,
     build_type : BuildTypes, arch : ArchValues]

(* ---- values of the objects generate() works on ------------------------- *)

\* The generator of a CMakeToolchain the recipe has not assigned.
Unset == "unset"

\* A file that has not been written.
NoFile == [written |-> FALSE]

\* The cache variable generate() may set, and its value.
ExportVar == "CMAKE_EXPORT_COMPILE_COMMANDS"

ExportEntry == <<ExportVar, "ON">>

VARIABLES
    settings,       \* self.settings of the instance
    pc,             \* position inside generate(): the last statement executed
    deps,           \* the local CMakeDeps object: does it exist
    toolchain,      \* the local CMakeToolchain object: exists, generator, cache_variables
    depsFiles,      \* output of deps.generate()
    toolchainFile,  \* output of toolchain.generate(): snapshot of the toolchain object
    calls,          \* the generate() calls made on the tools, in order
    layoutCalled    \* cmake_layout(self) has been called

vars == <<settings, pc, deps, toolchain, depsFiles, toolchainFile, calls, layoutCalled>>

NoToolchain == [exists |-> FALSE, generator |-> Unset, cache_variables |-> {}]

Init ==
    /\ settings \in SettingsValues
    /\ pc = "idle"
    /\ deps = FALSE
    /\ toolchain = NoToolchain
    /\ depsFiles = FALSE
    /\ toolchainFile = NoFile
    /\ calls = <<>>
    /\ layoutCalled = FALSE

(* ---- generate(), one action per statement ------------------------------ *)

\* deps = CMakeDeps(self)
CreateDeps ==
    /\ pc = "idle"
    /\ deps' = TRUE
    /\ pc' = "deps_created"
    /\ UNCHANGED <<settings, toolchain, depsFiles, toolchainFile, calls, layoutCalled>>

\* deps.generate()
DepsGenerate ==
    /\ pc = "deps_created"
    /\ deps
    /\ depsFiles' = TRUE
    /\ calls' = Append(calls, "CMakeDeps")
    /\ pc' = "deps_generated"
    /\ UNCHANGED <<settings, deps, toolchain, toolchainFile, layoutCalled>>

\* toolchain = CMakeToolchain(self)
CreateToolchain ==
    /\ pc = "deps_generated"
    /\ toolchain' = [exists |-> TRUE, generator |-> Unset, cache_variables |-> {}]
    /\ pc' = "toolchain_created"
    /\ UNCHANGED <<settings, deps, depsFiles, toolchainFile, calls, layoutCalled>>

SetGenerator_Conditional ==
    /\ pc = "toolchain_created"
    /\ toolchain.exists
    /\ toolchain' = [toolchain EXCEPT !.generator =
                        IF settings.build_type = "Debug" THEN "Ninja"
                        ELSE "Unix Makefiles"]
    /\ pc' = "generator_set"
    /\ UNCHANGED <<settings, deps, depsFiles, toolchainFile, calls, layoutCalled>>

\* toolchain.generator = "Ninja"
SetGenerator ==
    /\ pc = "toolchain_created"
    /\ toolchain.exists
    /\ toolchain' = [toolchain EXCEPT !.generator = "Ninja"]
    /\ pc' = "generator_set"
    /\ UNCHANGED <<settings, deps, depsFiles, toolchainFile, calls, layoutCalled>>

\* if self.settings.build_type == "Debug":
\*     toolchain.cache_variables["CMAKE_EXPORT_COMPILE_COMMANDS"] = "ON"
SetCacheVariables ==
    /\ pc = "generator_set"
    /\ toolchain' =
         IF settings.build_type = "Debug"
         THEN [toolchain EXCEPT !.cache_variables =
                  {e \in @ : e[1] # ExportVar} \cup {ExportEntry}]
         ELSE toolchain
    /\ pc' = "cache_set"
    /\ UNCHANGED <<settings, deps, depsFiles, toolchainFile, calls, layoutCalled>>

\* toolchain.generate(): writes the toolchain as the object is at this point
ToolchainGenerate ==
    /\ pc = "cache_set"
    /\ toolchain.exists
    /\ toolchainFile' = [written |-> TRUE,
                         generator |-> toolchain.generator,
                         cache_variables |-> toolchain.cache_variables]
    /\ calls' = Append(calls, "CMakeToolchain")
    /\ pc' = "done"
    /\ UNCHANGED <<settings, deps, toolchain, depsFiles, layoutCalled>>

(* ---- layout() ----------------------------------------------------------- *)

\* cmake_layout(self); a method of its own, never run in the middle of generate()
Layout ==
    /\ pc \in {"idle", "done"}
    /\ ~layoutCalled
    /\ layoutCalled' = TRUE
    /\ UNCHANGED <<settings, pc, deps, toolchain, depsFiles, toolchainFile, calls>>

Next ==
    \/ CreateDeps
    \/ DepsGenerate
    \/ CreateToolchain
    \/ SetGenerator
    \/ SetCacheVariables
    \/ ToolchainGenerate
    \/ Layout

Spec == Init /\ [][Next]_vars

(* ---- C10 ---------------------------------------------------------------- *)

\* C10: generate() generates the CMake dependency files and then the toolchain,
\* the toolchain is generated with generator "Ninja" whatever build_type is, and
\* the generated toolchain holds CMAKE_EXPORT_COMPILE_COMMANDS = "ON" if and only
\* if settings.build_type is "Debug" (the variable is set on the toolchain object
\* before toolchain.generate() runs, so the generated toolchain has it).
C10_Generate ==
    /\ toolchainFile.written => depsFiles
    /\ calls \in {<<>>, <<"CMakeDeps">>, <<"CMakeDeps", "CMakeToolchain">>}
    /\ toolchainFile.written =>
         /\ toolchainFile.generator = "Ninja"
         /\ (ExportEntry \in toolchainFile.cache_variables
               <=> settings.build_type = "Debug")
    /\ pc = "done" =>
         /\ toolchainFile.written
         /\ calls = <<"CMakeDeps", "CMakeToolchain">>

\* generate() has finished for a Debug build and the generated toolchain holds
\* the variable.
C10_Witness ==
    /\ pc = "done"
    /\ settings.build_type = "Debug"
    /\ toolchainFile.written
    /\ ExportEntry \in toolchainFile.cache_variables

=============================================================================
